---------------------------- MODULE Spec2Model ----------------------------
(* The in-memory namespace engine `Daniel` (src/src/filesystem/daniel.rs)  *)
(* with its path index `InodeMapper` (metadata.rs) and its directory tree  *)
(* `DirList` (file_types.rs), driven through the fuser::Filesystem          *)
(* handlers.  A panic (`expect`, `unwrap`, `assert!`, `panic!`) terminates  *)
(* the process: it is recorded in `panicked` and no handler runs after it.  *)
(* A HashMap is iterated in an order the program does not control, so an    *)
(* operation that depends on that order is a choice over all orders.        *)
EXTENDS Integers, Sequences, FiniteSets, TLC

\* ------------------------------------------------------------------ bounds
\* Largest identifier the allocator hands out in the model (the counter is
\* a u64 that saturates at 2^64-1, far beyond any bounded run).
MaxInode == 3

\* Identifiers a caller may pass: 0 (rejected by unchecked_inode!), the live
\* ones, and one identifier that is never allocated.
Inodes == 0 .. (MaxInode + 1)

\* Names of entries a caller creates: single path components.
ComponentNames == {"a", "b"}

\* Names a caller may pass to lookup and unlink: the component names and
\* the root's own name "/".
Names == ComponentNames \cup {"/"}

\* Permission bits a caller may request: 0o644, 0o755.
Perms == {420, 493}

\* Cursors a caller may pass to the engine's readdir.
Offsets == 0 .. (MaxInode + 1)

\* Permission masks a caller may pass to access: F_OK, W_OK.
Masks == {0, 2}

\* Cursors a caller may pass to the adapter's readdir; the handler panics
\* on a cursor above ReaddirOffsetLimit.
ReaddirOffsetLimit == 50

ReaddirOffsets == {0, 1, 2, ReaddirOffsetLimit + 1}

\* Number of entries the reply buffer of a readdir request accepts.
Capacities == {1, 2}

\* Largest identifier allocated in the path-index / attribute-store
\* specification.
MaxStoreInode == 3

\* Largest inode the legacy flat store assigns in the model.
MaxLegacyInode == 4

\* File names pushed to the legacy flat store, and their sizes.
LegacyNames == {"a", "b", "c"}

LegacySizes == {0, 5}

\* Largest identifier allocated in the setattr specification.
MaxSetattrInode == 2

\* Largest reading of the clock in the model.
MaxClock == 1

\* An explicit timestamp a caller passes to setattr, later than any reading
\* of the clock in the model.
SpecificTime == MaxClock + 5

\* Option / TimeOrNow arguments of setattr.
None == [tag |-> "None", v |-> 0]

Some(v) == [tag |-> "Some", v |-> v]

Now == [tag |-> "Now", v |-> 0]

SizeArgs == {None, Some(5)}

TimeOrNowArgs == {None, Now, Some(SpecificTime)}

CtimeArgs == {None, Some(SpecificTime)}

\* Identifiers setattr is called with: 0, and the first allocated one
\* (live after its create/mkdir, not live before it and after its unlink).
SetattrInodes == {0, 2}

\* ------------------------------------------------------- program constants
ROOT_INODE == 1

\* -------------------------------------------------------------- variables
VARIABLES
    mapper,     \* Daniel.mapper : [map, paths, next_inode]
    list,       \* Daniel.list.map : Inode -> DirEntry
    panicked,   \* the process was terminated by a panic
    last,       \* the most recent call and what it returned
    returned,   \* identifiers returned by create/mkdir, in call order
    created,    \* (parent, name) -> identifier returned by the latest
                \* create/mkdir of that pair, dropped when unlink is called
    clock,      \* the reading SystemTime::now() gives
    attrs,      \* Attr.attrs : Inode -> FileAttribute
    stream,     \* the directory listing a caller is reading through the
                \* adapter's readdir: the call and its reply
    meta        \* the legacy flat store MetaData : [attrs, inodes]

vars == <<mapper, list, panicked, last, returned, created, clock, attrs,
          stream, meta>>

\* ---------------------------------------------------------------- helpers
Put(f, k, v) == [x \in (DOMAIN f) \cup {k} |-> IF x = k THEN v ELSE f[x]]

Drop(f, k) == [x \in (DOMAIN f) \ {k} |-> f[x]]

EmptyMap == [x \in {} |-> 0]

\* --------------------------------------------------------- attribute record
\* FileAttribute::new : size 0, identifier, kind and permission bits as
\* given, the four timestamps set to the current time.
FileAttribute_new(ino, kind, perm) ==
    [ino |-> ino, kind |-> kind, perm |-> perm, size |-> 0,
     atime |-> clock, mtime |-> clock, ctime |-> clock, crtime |-> clock]

NoAttr == [ino |-> 0, kind |-> "None", perm |-> 0, size |-> 0,
           atime |-> 0, mtime |-> 0, ctime |-> 0, crtime |-> 0]

\* ------------------------------------------------------------ entry records
File_new(name, parent, inode, perms) ==
    [variant |-> "File", parent |-> parent, name |-> name,
     attr |-> FileAttribute_new(inode, "RegularFile", perms),
     entries |-> EmptyMap]

Directory_new(parent, name, inode, perms) ==
    [variant |-> "Directory", parent |-> parent, name |-> name,
     attr |-> FileAttribute_new(inode, "Directory", perms),
     entries |-> EmptyMap]

\* DirEntry::kind
kind(item) == IF item.variant = "Directory" THEN "Directory" ELSE "RegularFile"

\* TryFrom<FileType> for EntryType
EntryType_try_from(k) == IF k = "Directory" THEN "Directory" ELSE "File"

Directory_insert_Self(dir, inode, entry) ==
    [dir EXCEPT !.entries = Put(@, dir.attr.ino, entry)]

\* Directory::insert
Directory_insert(dir, inode, entry) ==
    [dir EXCEPT !.entries = Put(@, inode, entry)]

\* DirList::default
DirList_default ==
    [i \in {ROOT_INODE} |-> Directory_new(ROOT_INODE, "/", ROOT_INODE, 493)]

\* ----------------------------------------------------------------- Attr
\* Attr::new : the store holds the root's record.
Attr_new ==
    [i \in {ROOT_INODE} |-> FileAttribute_new(1, "Directory", 493)]

\* Attr::push : entry(ino).or_insert(FileAttribute::new(..)) and a reference
\* to the record now stored under ino; there is no error result.
Attr_push(a, ino, perms, k) ==
    LET a1 == IF ino \in DOMAIN a
                THEN a ELSE Put(a, ino, FileAttribute_new(ino, k, perms))
    IN  [attrs |-> a1, res |-> "Ok", attr |-> a1[ino]]

\* ------------------------------------------------- legacy flat store
\* The order of String keys in a BTreeMap: byte order, "/" before letters.
KeyRank(name) ==
    CASE name = "/" -> 0
      [] name = "a" -> 1
      [] name = "b" -> 2
      [] name = "c" -> 3

\* BTreeMap::last_key_value : the pair with the greatest key.
last_key_value(inodes) ==
    LET k == CHOOSE x \in DOMAIN inodes :
                 \A y \in DOMAIN inodes : KeyRank(y) <= KeyRank(x)
    IN  <<k, inodes[k]>>

\* The FileAttr records the legacy store builds.
LegacyAttr(ino, size, k, perm) ==
    [ino |-> ino, kind |-> k, perm |-> perm, size |-> size,
     atime |-> clock, mtime |-> clock, ctime |-> clock, crtime |-> clock]

\* MetaData::new
MetaData_new ==
    [attrs  |-> [i \in {1} |-> LegacyAttr(1, 0, "Directory", 493)],
     inodes |-> [n \in {"/"} |-> 1]]

\* MetaData::push : the inode is one more than the value under the
\* greatest name.
MetaData_push(md, name, size) ==
    LET pair == last_key_value(md.inodes)
        a    == LegacyAttr(pair[2] + 1, size, "RegularFile", 420)
    IN  [attrs  |-> Put(md.attrs, a.ino, a),
         inodes |-> Put(md.inodes, name, a.ino)]

\* ------------------------------------------------------------- InodeMapper
InodeMapper_default ==
    [map        |-> [k \in {<<ROOT_INODE, "/">>} |-> ROOT_INODE],
     paths      |-> [n \in {"/"} |-> ROOT_INODE],
     next_inode |-> 2]

insert_NoAdvance(m, parent, path, inode) ==
    [map        |-> Put(m.map, <<parent, path>>, inode),
     paths      |-> Put(m.paths, path, inode),
     next_inode |-> m.next_inode]

\* InodeMapper::insert
insert(m, parent, path, inode) ==
    [map        |-> Put(m.map, <<parent, path>>, inode),
     paths      |-> Put(m.paths, path, inode),
     next_inode |-> m.next_inode + 1]

remove_Recycle(m, parent, path) ==
    [map        |-> Drop(m.map, <<parent, path>>),
     paths      |-> Drop(m.paths, path),
     next_inode |-> IF <<parent, path>> \in DOMAIN m.map
                    THEN m.map[<<parent, path>>] ELSE m.next_inode]

\* InodeMapper::remove
remove(m, parent, path) ==
    [map        |-> Drop(m.map, <<parent, path>>),
     paths      |-> Drop(m.paths, path),
     next_inode |-> m.next_inode]

\* InodeMapper::get_path : the identifier the name index holds for the
\* name, None when it holds none.
get_path(m, path) ==
    IF path \in DOMAIN m.paths THEN Some(m.paths[path]) ELSE None

\* InodeMapper::get_map : TRUE when the pair resolves
get_map_is_some(m, parent, path) == <<parent, path>> \in DOMAIN m.map

\* InodeMapper::next_inode
next_inode(m) == m.next_inode

\* ----------------------------------------------------------------- engine
\* Daniel::push.  The path index is updated before the parent is resolved,
\* so a panic on the parent leaves the pair registered.
push(m, l, item) ==
    LET ino == item.attr.ino
        m1  == insert(m, item.parent, item.name, ino)
    IN  IF item.parent \notin DOMAIN l
          THEN [mapper |-> m1, list |-> l, panic |-> TRUE]
        ELSE IF l[item.parent].variant # "Directory"
          THEN [mapper |-> m1, list |-> l, panic |-> TRUE]
        ELSE LET l1 == [l EXCEPT ![item.parent] =
                          Directory_insert(@, ino, EntryType_try_from(kind(item)))]
             IN  [mapper |-> m1, list |-> Put(l1, ino, item), panic |-> FALSE]

\* Daniel::create
create(m, l, parent, path, mode, perms) ==
    LET inode == next_inode(m)
        r     == push(m, l, File_new(path, parent, inode, perms))
    IN  IF r.panic
          THEN [mapper |-> r.mapper, list |-> r.list, res |-> "Panic", attr |-> NoAttr]
          ELSE [mapper |-> r.mapper, list |-> r.list, res |-> "Ok",
                attr |-> r.list[inode].attr]

\* Daniel::mkdir : the requested mode is ignored, the directory gets 0o755.
mkdir(m, l, parent, name, mode, umask) ==
    LET inode == next_inode(m)
    IN  IF parent = 0
          THEN [mapper |-> m, list |-> l, res |-> "Panic", attr |-> NoAttr]
          ELSE LET r == push(m, l, Directory_new(parent, name, inode, 493))
               IN  IF r.panic
                     THEN [mapper |-> r.mapper, list |-> r.list,
                           res |-> "Panic", attr |-> NoAttr]
                     ELSE [mapper |-> r.mapper, list |-> r.list, res |-> "Ok",
                           attr |-> r.list[inode].attr]

\* Daniel::lookup : the set of results over all iteration orders of the
\* parent's child set.  The loop stops at the first child that is missing
\* from the tree (panic) or whose name matches (Ok).
lookup(l, parent, name) ==
    IF parent = 0 \/ parent \notin DOMAIN l
      THEN {[res |-> "Panic", attr |-> NoAttr]}
    ELSE IF l[parent].variant # "Directory"
      THEN {[res |-> "Panic", attr |-> NoAttr]}
    ELSE LET stops == {c \in DOMAIN l[parent].entries :
                          c \notin DOMAIN l \/ l[c].name = name}
         IN  IF stops = {}
               THEN {[res |-> "NotFound", attr |-> NoAttr]}
               ELSE {IF c \in DOMAIN l
                       THEN [res |-> "Ok", attr |-> l[c].attr]
                       ELSE [res |-> "Panic", attr |-> NoAttr] : c \in stops}

\* Daniel::getattr
getattr(l, ino) ==
    IF ino = 0 \/ ino \notin DOMAIN l
      THEN [res |-> "Panic", attr |-> NoAttr]
      ELSE [res |-> "Ok", attr |-> l[ino].attr]

unlink_KeepRecord(m, l, parent, name) ==
    IF parent = 0 \/ ~get_map_is_some(m, parent, name)
      THEN [mapper |-> m, list |-> l, res |-> "Panic", ino |-> 0]
      ELSE LET ino == m.map[<<parent, name>>]
           IN  [mapper |-> remove(m, parent, name), list |-> l,
                res |-> "Ok", ino |-> ino]

unlink_KeepPair(m, l, parent, name) ==
    IF parent = 0 \/ ~get_map_is_some(m, parent, name)
      THEN [mapper |-> m, list |-> l, res |-> "Panic", ino |-> 0]
      ELSE LET ino == m.map[<<parent, name>>]
           IN  [mapper |-> m, list |-> Drop(l, ino), res |-> "Ok", ino |-> ino]

\* Daniel::unlink : removes the tree record and the path-index pair; the
\* parent's child set is not touched.
unlink(m, l, parent, name) ==
    IF parent = 0 \/ ~get_map_is_some(m, parent, name)
      THEN [mapper |-> m, list |-> l, res |-> "Panic", ino |-> 0]
      ELSE LET ino == m.map[<<parent, name>>]
           IN  [mapper |-> remove(m, parent, name), list |-> Drop(l, ino),
                res |-> "Ok", ino |-> ino]

\* The orders in which a HashMap with key set S can be iterated.
Orders(S) ==
    {f \in [1 .. Cardinality(S) -> S] :
        \A i, j \in 1 .. Cardinality(S) : f[i] = f[j] => i = j}

\* No listing has been requested.
NoStream ==
    [state |-> "Idle", ino |-> 0, cap |-> 0, order |-> << >>, start |-> 0,
     offset |-> 0, res |-> "Ok", entries |-> << >>, listed |-> << >>]

\* The loop of Filesystem::readdir over entries().iter().enumerate()
\* .skip(offset), from the i-th child (counted from 1) of the iteration
\* order: a child missing from the tree replies ENOENT and drops what the
\* buffer holds; reply.add refuses the entry and the loop breaks when the
\* buffer is full; an accepted child carries the offset i.
RECURSIVE FillReply(_, _, _, _, _)
FillReply(l, order, i, acc, cap) ==
    IF i > Len(order)
      THEN [res |-> "Ok", entries |-> acc]
    ELSE IF order[i] \notin DOMAIN l
      THEN [res |-> "ENOENT", entries |-> << >>]
    ELSE IF Len(acc) >= cap
      THEN [res |-> "Ok", entries |-> acc]
    ELSE FillReply(l, order, i + 1,
                   Append(acc, [ino |-> order[i], offset |-> i,
                                kind |-> kind(l[order[i]]),
                                name |-> l[order[i]].name]),
                   cap)

\* Filesystem::readdir : the reply to one request, with the directory's
\* child set iterated in `order`.
FsReaddirReply(l, ino, offset, cap, order) ==
    IF offset > ReaddirOffsetLimit
      THEN [res |-> "Panic", entries |-> << >>]
    ELSE LET dots ==
               IF offset = 0 /\ cap >= 1
                 THEN <<[ino |-> 1, offset |-> 1, kind |-> "Directory",
                         name |-> "."]>>
               ELSE IF offset = 1 /\ cap >= 1
                 THEN <<[ino |-> 1, offset |-> 2, kind |-> "Directory",
                         name |-> ".."]>>
               ELSE << >>
         IN  IF ino = 0 \/ ino \notin DOMAIN l
               THEN [res |-> "Panic", entries |-> << >>]
             ELSE IF l[ino].variant # "Directory"
               THEN [res |-> "Panic", entries |-> << >>]
             ELSE FillReply(l, order, offset + 1, dots, cap)

\* The iteration orders of the child set of ino (one empty order when ino
\* is not a directory of the tree).
ChildOrders(l, ino) ==
    IF ino \in DOMAIN l /\ l[ino].variant = "Directory"
      THEN Orders(DOMAIN l[ino].entries) ELSE {<< >>}

\* The identifiers of the children (not `.` or `..`) in a reply.
ChildrenIn(entries) ==
    SelectSeq(entries, LAMBDA e : e.name \notin {".", ".."})

NoEntry ==
    [variant |-> "None", parent |-> 0, name |-> "", attr |-> NoAttr,
     entries |-> EmptyMap]

readdir_NoKindCheck(l, ino, fh, offset) ==
    IF ino = 0
      THEN [res |-> "Panic", entry |-> NoEntry]
    ELSE IF ino \notin DOMAIN l
      THEN [res |-> "Break", entry |-> NoEntry]
    ELSE LET idx == IF offset > 1 THEN offset ELSE 1
         IN  IF idx \notin DOMAIN l
               THEN [res |-> "Break", entry |-> NoEntry]
               ELSE [res |-> "Continue", entry |-> l[idx]]

\* Daniel::readdir : for a directory, the tree record whose identifier is
\* max(offset, 1), whatever its parent; Break for a file or a missing id.
readdir(l, ino, fh, offset) ==
    IF ino = 0
      THEN [res |-> "Panic", entry |-> NoEntry]
    ELSE IF ino \notin DOMAIN l
      THEN [res |-> "Break", entry |-> NoEntry]
    ELSE IF l[ino].variant = "Directory"
      THEN LET idx == IF offset > 1 THEN offset ELSE 1
           IN  IF idx \notin DOMAIN l
                 THEN [res |-> "Break", entry |-> NoEntry]
                 ELSE [res |-> "Continue", entry |-> l[idx]]
    ELSE [res |-> "Break", entry |-> NoEntry]

access_AlwaysOk(l, ino, mask) ==
    IF ino = 0 THEN "Panic" ELSE "Ok"

\* Daniel::access : existence check, the mask is not evaluated.
access(l, ino, mask) ==
    IF ino = 0 THEN "Panic"
    ELSE IF ino \in DOMAIN l THEN "Ok"
    ELSE "NotFound"

\* The value a TimeOrNow argument stands for.
TimeOrNow_value(t) == IF t.tag = "Now" THEN clock ELSE t.v

setattr_TouchMtime(l, ino, size, atime, mtime, ctime) ==
    IF ino = 0
      THEN [list |-> l, res |-> "Panic", attr |-> NoAttr]
    ELSE IF ino \notin DOMAIN l
      THEN [list |-> l, res |-> "NotFound", attr |-> NoAttr]
    ELSE LET a0 == l[ino].attr
             a1 == IF size.tag = "Some"
                     THEN [a0 EXCEPT !.size = size.v, !.mtime = clock] ELSE a0
             a2 == IF atime.tag # "None"
                     THEN [a1 EXCEPT !.atime = TimeOrNow_value(atime)] ELSE a1
             a3 == IF mtime.tag # "None"
                     THEN [a2 EXCEPT !.mtime = TimeOrNow_value(mtime)] ELSE a2
             a4 == IF ctime.tag = "Some" THEN [a3 EXCEPT !.ctime = ctime.v] ELSE a3
         IN  [list |-> [l EXCEPT ![ino].attr = a4], res |-> "Ok", attr |-> a4]

\* Filesystem::setattr : the engine part, ENOENT for an id missing from the
\* tree, else each present argument overwrites its field.
setattr(l, ino, size, atime, mtime, ctime) ==
    IF ino = 0
      THEN [list |-> l, res |-> "Panic", attr |-> NoAttr]
    ELSE IF ino \notin DOMAIN l
      THEN [list |-> l, res |-> "NotFound", attr |-> NoAttr]
    ELSE LET a0 == l[ino].attr
             a1 == IF size.tag = "Some" THEN [a0 EXCEPT !.size = size.v] ELSE a0
             a2 == IF atime.tag # "None"
                     THEN [a1 EXCEPT !.atime = TimeOrNow_value(atime)] ELSE a1
             a3 == IF mtime.tag # "None"
                     THEN [a2 EXCEPT !.mtime = TimeOrNow_value(mtime)] ELSE a2
             a4 == IF ctime.tag = "Some" THEN [a3 EXCEPT !.ctime = ctime.v] ELSE a3
         IN  [list |-> [l EXCEPT ![ino].attr = a4], res |-> "Ok", attr |-> a4]

\* ------------------------------------------------------------------- Init
Init ==
    /\ clock = 0
    /\ mapper = InodeMapper_default
    /\ list = DirList_default
    /\ panicked = FALSE
    /\ last = [op |-> "new", arg |-> 0, name |-> "/", res |-> "Ok", attr |-> NoAttr]
    /\ returned = << >>
    /\ created = [k \in {} |-> 0]
    /\ attrs = Attr_new
    /\ stream = NoStream
    /\ meta = MetaData_new

\* ---------------------------------------------------------------- actions
\* Filesystem::create : unchecked_inode!(parent), then Daniel::create with
\* the request's flags as the permission bits.
FsCreate(parent, name, mode, flags) ==
    /\ ~panicked
    /\ next_inode(mapper) <= MaxInode
    /\ IF parent = 0
         THEN /\ panicked' = TRUE
              /\ last' = [op |-> "create", arg |-> parent, name |-> name,
                          res |-> "Panic", attr |-> NoAttr]
              /\ UNCHANGED <<meta, attrs, stream, mapper, list, returned, created, clock>>
         ELSE LET r == create(mapper, list, parent, name, mode % 65536, flags % 65536)
              IN  /\ mapper' = r.mapper
                  /\ list' = r.list
                  /\ panicked' = (r.res = "Panic")
                  /\ last' = [op |-> "create", arg |-> parent, name |-> name,
                              res |-> r.res, attr |-> r.attr]
                  /\ returned' = IF r.res = "Ok"
                                   THEN Append(returned, r.attr.ino) ELSE returned
                  /\ created' = IF r.res = "Ok"
                                  THEN Put(created, <<parent, name>>, r.attr.ino)
                                  ELSE created
                  /\ UNCHANGED <<meta, attrs, stream, clock>>

\* Filesystem::mkdir
FsMkdir(parent, name, mode, umask) ==
    /\ ~panicked
    /\ next_inode(mapper) <= MaxInode
    /\ LET r == mkdir(mapper, list, parent, name, mode, umask)
       IN  /\ mapper' = r.mapper
           /\ list' = r.list
           /\ panicked' = (r.res = "Panic")
           /\ last' = [op |-> "mkdir", arg |-> parent, name |-> name,
                       res |-> r.res, attr |-> r.attr]
           /\ returned' = IF r.res = "Ok"
                            THEN Append(returned, r.attr.ino) ELSE returned
           /\ created' = IF r.res = "Ok"
                           THEN Put(created, <<parent, name>>, r.attr.ino)
                           ELSE created
    /\ UNCHANGED <<meta, attrs, stream, clock>>

\* Filesystem::lookup
FsLookup(parent, name) ==
    /\ ~panicked
    /\ \E r \in lookup(list, parent, name) :
          /\ panicked' = (r.res = "Panic")
          /\ last' = [op |-> "lookup", arg |-> parent, name |-> name,
                      res |-> r.res, attr |-> r.attr]
    /\ UNCHANGED <<meta, attrs, stream, mapper, list, returned, created, clock>>

\* Filesystem::getattr
FsGetattr(ino) ==
    /\ ~panicked
    /\ LET r == getattr(list, ino)
       IN  /\ panicked' = (r.res = "Panic")
           /\ last' = [op |-> "getattr", arg |-> ino, name |-> "/",
                       res |-> r.res, attr |-> r.attr]
    /\ UNCHANGED <<meta, attrs, stream, mapper, list, returned, created, clock>>

\* Filesystem::unlink
FsUnlink(parent, name) ==
    /\ ~panicked
    /\ LET r == unlink(mapper, list, parent, name)
       IN  /\ mapper' = r.mapper
           /\ list' = r.list
           /\ panicked' = (r.res = "Panic")
           /\ last' = [op |-> "unlink", arg |-> parent, name |-> name,
                       res |-> r.res,
                       attr |-> [NoAttr EXCEPT !.ino = r.ino]]
           /\ created' = Drop(created, <<parent, name>>)
    /\ UNCHANGED <<meta, attrs, stream, returned, clock>>

\* Daniel::push called directly on the engine with an entry the caller
\* built, as the tests do.
Push(variant, parent, name, ino, perms) ==
    /\ ~panicked
    /\ next_inode(mapper) <= MaxInode
    /\ LET item == IF variant = "Directory"
                     THEN Directory_new(parent, name, ino, perms)
                     ELSE File_new(name, parent, ino, perms)
           r    == push(mapper, list, item)
       IN  /\ mapper' = r.mapper
           /\ list' = r.list
           /\ panicked' = r.panic
           /\ last' = [op |-> "push", arg |-> parent, name |-> name,
                       res |-> IF r.panic THEN "Panic" ELSE "Ok",
                       attr |-> item.attr]
    /\ UNCHANGED <<meta, attrs, stream, returned, created, clock>>

\* Daniel::readdir called directly on the engine
Readdir(ino, offset) ==
    /\ ~panicked
    /\ LET r == readdir(list, ino, 0, offset)
       IN  /\ panicked' = (r.res = "Panic")
           /\ last' = [op |-> "readdir", arg |-> ino, name |-> "/",
                       res |-> r.res, attr |-> r.entry.attr]
    /\ UNCHANGED <<meta, attrs, stream, mapper, list, returned, created, clock>>

\* Filesystem::access : Ok -> reply.ok(), Err -> ENOENT
FsAccess(ino, mask) ==
    /\ ~panicked
    /\ LET r == access(list, ino, mask)
       IN  /\ panicked' = (r = "Panic")
           /\ last' = [op |-> "access", arg |-> ino, name |-> "/",
                       res |-> r, attr |-> NoAttr]
    /\ UNCHANGED <<meta, attrs, stream, mapper, list, returned, created, clock>>

\* Filesystem::setattr
FsSetattr(ino, size, atime, mtime, ctime) ==
    /\ ~panicked
    /\ LET r == setattr(list, ino, size, atime, mtime, ctime)
       IN  /\ list' = r.list
           /\ panicked' = (r.res = "Panic")
           /\ last' = [op |-> "setattr", arg |-> ino, name |-> "/",
                       res |-> r.res, attr |-> r.attr]
    /\ UNCHANGED <<meta, attrs, stream, mapper, returned, created, clock>>

\* Time passes between two requests.
Tick ==
    /\ ~panicked
    /\ clock < MaxClock
    /\ clock' = clock + 1
    /\ UNCHANGED <<meta, attrs, stream, mapper, list, panicked, last, returned, created>>

\* The reply of a handler that does not call the engine.
Reply(op, res) ==
    [op |-> op, arg |-> 0, name |-> "/", res |-> res, attr |-> NoAttr]

\* Filesystem::symlink
FsSymlink ==
    /\ ~panicked
    /\ last' = Reply("symlink", "EPERM")
    /\ UNCHANGED <<meta, attrs, stream, mapper, list, panicked, returned, created, clock>>

\* Filesystem::rename
FsRename ==
    /\ ~panicked
    /\ last' = Reply("rename", "ENOSYS")
    /\ UNCHANGED <<meta, attrs, stream, mapper, list, panicked, returned, created, clock>>

\* Filesystem::link
FsLink ==
    /\ ~panicked
    /\ last' = Reply("link", "EPERM")
    /\ UNCHANGED <<meta, attrs, stream, mapper, list, panicked, returned, created, clock>>

\* Filesystem::read
FsRead ==
    /\ ~panicked
    /\ last' = Reply("read", "ENOSYS")
    /\ UNCHANGED <<meta, attrs, stream, mapper, list, panicked, returned, created, clock>>

\* Filesystem::write
FsWrite ==
    /\ ~panicked
    /\ last' = Reply("write", "ENOSYS")
    /\ UNCHANGED <<meta, attrs, stream, mapper, list, panicked, returned, created, clock>>

\* Filesystem::statfs : reply.statfs(..), a success reply
FsStatfs ==
    /\ ~panicked
    /\ last' = Reply("statfs", "Ok")
    /\ UNCHANGED <<meta, attrs, stream, mapper, list, panicked, returned, created, clock>>

\* Filesystem::setxattr
FsSetxattr ==
    /\ ~panicked
    /\ last' = Reply("setxattr", "ENOSYS")
    /\ UNCHANGED <<meta, attrs, stream, mapper, list, panicked, returned, created, clock>>

\* Filesystem::getxattr
FsGetxattr ==
    /\ ~panicked
    /\ last' = Reply("getxattr", "ENOSYS")
    /\ UNCHANGED <<meta, attrs, stream, mapper, list, panicked, returned, created, clock>>

\* Filesystem::listxattr
FsListxattr ==
    /\ ~panicked
    /\ last' = Reply("listxattr", "ENOSYS")
    /\ UNCHANGED <<meta, attrs, stream, mapper, list, panicked, returned, created, clock>>

\* Filesystem::removexattr
FsRemovexattr ==
    /\ ~panicked
    /\ last' = Reply("removexattr", "ENOSYS")
    /\ UNCHANGED <<meta, attrs, stream, mapper, list, panicked, returned, created, clock>>

\* Filesystem::getlk
FsGetlk ==
    /\ ~panicked
    /\ last' = Reply("getlk", "ENOSYS")
    /\ UNCHANGED <<meta, attrs, stream, mapper, list, panicked, returned, created, clock>>

\* Filesystem::setlk
FsSetlk ==
    /\ ~panicked
    /\ last' = Reply("setlk", "ENOSYS")
    /\ UNCHANGED <<meta, attrs, stream, mapper, list, panicked, returned, created, clock>>

\* Filesystem::ioctl
FsIoctl ==
    /\ ~panicked
    /\ last' = Reply("ioctl", "ENOSYS")
    /\ UNCHANGED <<meta, attrs, stream, mapper, list, panicked, returned, created, clock>>

Next ==
    \/ \E p \in Inodes, n \in ComponentNames, f \in Perms : FsCreate(p, n, 33188, f)
    \/ \E p \in Inodes, n \in ComponentNames, mo \in Perms : FsMkdir(p, n, mo, 18)
    \/ \E p \in Inodes, n \in Names : FsLookup(p, n)
    \/ \E i \in Inodes : FsGetattr(i)
    \/ \E p \in Inodes, n \in Names : FsUnlink(p, n)

Spec == Init /\ [][Next]_vars

\* The engine driven by create, mkdir and unlink, queried through readdir
\* and access, with the requests the core does not implement.
NextQuery ==
    \/ \E p \in Inodes, n \in ComponentNames : FsCreate(p, n, 33188, 420)
    \/ \E p \in Inodes, n \in ComponentNames : FsMkdir(p, n, 493, 18)
    \/ \E p \in Inodes, n \in Names : FsUnlink(p, n)
    \/ \E i \in Inodes, o \in Offsets : Readdir(i, o)
    \/ \E i \in Inodes, m \in Masks : FsAccess(i, m)
    \/ FsSymlink
    \/ FsRename
    \/ FsLink
    \/ FsRead
    \/ FsWrite
    \/ FsStatfs
    \/ FsSetxattr
    \/ FsGetxattr
    \/ FsListxattr
    \/ FsRemovexattr
    \/ FsGetlk
    \/ FsSetlk
    \/ FsIoctl

SpecQuery == Init /\ [][NextQuery]_vars

\* The engine driven by insertions of entries with fresh identifiers (push
\* with an identifier the caller picks among those that are not keys of the
\* tree; create and mkdir while the allocator's next identifier is not a
\* key of the tree), by unlink, and queried through readdir.
PushFresh(variant, parent, name, ino, perms) ==
    /\ ino \notin DOMAIN list
    /\ Push(variant, parent, name, ino, perms)

CreateFresh(parent, name) ==
    /\ next_inode(mapper) \notin DOMAIN list
    /\ FsCreate(parent, name, 33188, 420)

MkdirFresh(parent, name) ==
    /\ next_inode(mapper) \notin DOMAIN list
    /\ FsMkdir(parent, name, 493, 18)

NextPush ==
    \/ \E v \in {"File", "Directory"}, p \in Inodes \ {0}, n \in ComponentNames,
          i \in 2 .. MaxInode : PushFresh(v, p, n, i, 429)
    \/ \E p \in Inodes, n \in ComponentNames : CreateFresh(p, n)
    \/ \E p \in Inodes, n \in ComponentNames : MkdirFresh(p, n)
    \/ \E p \in Inodes, n \in Names : FsUnlink(p, n)
    \/ Readdir(ROOT_INODE, 0)

SpecPush == Init /\ [][NextPush]_vars

\* The engine driven by push with any identifier the caller picks, by
\* create, mkdir and unlink.
NextPushAny ==
    \/ \E v \in {"File", "Directory"}, p \in Inodes \ {0}, n \in ComponentNames,
          i \in 2 .. MaxInode : Push(v, p, n, i, 429)
    \/ \E p \in Inodes, n \in ComponentNames : FsCreate(p, n, 33188, 420)
    \/ \E p \in Inodes, n \in ComponentNames : FsMkdir(p, n, 493, 18)
    \/ \E p \in Inodes, n \in Names : FsUnlink(p, n)

SpecPushAny == Init /\ [][NextPushAny]_vars

\* Filesystem::readdir : one request with a cursor the caller picks; it
\* opens a listing of ino.
FsReaddir(ino, offset, cap) ==
    /\ ~panicked
    /\ \E order \in ChildOrders(list, ino) :
          LET r == FsReaddirReply(list, ino, offset, cap, order)
          IN  /\ panicked' = (r.res = "Panic")
              /\ last' = [op |-> "fs_readdir", arg |-> ino, name |-> "/",
                          res |-> r.res, attr |-> NoAttr]
              /\ stream' = [state |-> "Open", ino |-> ino, cap |-> cap,
                            order |-> order, start |-> offset,
                            offset |-> offset, res |-> r.res,
                            entries |-> r.entries,
                            listed |-> ChildrenIn(r.entries)]
    /\ UNCHANGED <<meta, mapper, list, returned, created, clock, attrs>>

\* Filesystem::readdir : the next request of an open listing, with the
\* offset of the last entry of the previous reply as cursor.  The child
\* set is iterated in the same order while its keys are the same.
FsReaddirResume ==
    /\ ~panicked
    /\ stream.state = "Open" /\ stream.res = "Ok" /\ stream.entries # << >>
    /\ LET offset == stream.entries[Len(stream.entries)].offset
           keys   == {stream.order[i] : i \in 1 .. Len(stream.order)}
       IN  \E order \in ChildOrders(list, stream.ino) :
             /\ (stream.ino \in DOMAIN list
                   /\ list[stream.ino].variant = "Directory"
                   /\ DOMAIN list[stream.ino].entries = keys)
                     => order = stream.order
             /\ LET r == FsReaddirReply(list, stream.ino, offset,
                                        stream.cap, order)
                IN  /\ panicked' = (r.res = "Panic")
                    /\ last' = [op |-> "fs_readdir", arg |-> stream.ino,
                                name |-> "/", res |-> r.res, attr |-> NoAttr]
                    /\ stream' = [stream EXCEPT
                                    !.order = order, !.offset = offset,
                                    !.res = r.res, !.entries = r.entries,
                                    !.listed = @ \o ChildrenIn(r.entries)]
    /\ UNCHANGED <<meta, mapper, list, returned, created, clock, attrs>>

\* The tree is built while no listing is open, then read through readdir.
ListCreate(parent, name) ==
    /\ stream.state = "Idle"
    /\ FsCreate(parent, name, 33188, 420)

ListMkdir(parent, name) ==
    /\ stream.state = "Idle"
    /\ FsMkdir(parent, name, 493, 18)

ListUnlink(parent, name) ==
    /\ stream.state = "Idle"
    /\ FsUnlink(parent, name)

NextReaddir ==
    \/ \E p \in {ROOT_INODE, 2}, n \in ComponentNames : ListCreate(p, n)
    \/ \E p \in {ROOT_INODE, 2}, n \in ComponentNames : ListMkdir(p, n)
    \/ \E n \in ComponentNames : ListUnlink(ROOT_INODE, n)
    \/ \E i \in Inodes, o \in ReaddirOffsets, c \in Capacities :
          FsReaddir(i, o, c)
    \/ FsReaddirResume

SpecReaddir == Init /\ [][NextReaddir]_vars

\* InodeMapper::insert called on the path index
MapperInsert(parent, name, ino) ==
    /\ ~panicked
    /\ next_inode(mapper) <= MaxStoreInode
    /\ mapper' = insert(mapper, parent, name, ino)
    /\ last' = [op |-> "mapper_insert", arg |-> parent, name |-> name,
                res |-> "Ok", attr |-> NoAttr]
    /\ UNCHANGED <<meta, list, panicked, returned, created, clock, attrs, stream>>

\* InodeMapper::remove called on the path index
MapperRemove(parent, name) ==
    /\ ~panicked
    /\ mapper' = remove(mapper, parent, name)
    /\ last' = [op |-> "mapper_remove", arg |-> parent, name |-> name,
                res |-> "Ok", attr |-> NoAttr]
    /\ UNCHANGED <<meta, list, panicked, returned, created, clock, attrs, stream>>

\* Attr::push called on the attribute store
AttrPush(ino, perms, k) ==
    /\ ~panicked
    /\ LET r == Attr_push(attrs, ino, perms, k)
       IN  /\ attrs' = r.attrs
           /\ last' = [op |-> "attr_push", arg |-> ino, name |-> "/",
                       res |-> r.res, attr |-> r.attr]
    /\ UNCHANGED <<meta, mapper, list, panicked, returned, created, clock, stream>>

\* The path index and the attribute store called directly.
NextStore ==
    \/ \E p \in {ROOT_INODE, 2}, n \in ComponentNames,
          i \in 2 .. MaxStoreInode : MapperInsert(p, n, i)
    \/ \E p \in {ROOT_INODE, 2}, n \in Names : MapperRemove(p, n)
    \/ \E i \in 1 .. MaxStoreInode, pe \in Perms,
          k \in {"RegularFile", "Directory"} : AttrPush(i, pe, k)

SpecStore == Init /\ [][NextStore]_vars

\* MetaData::push called on the legacy flat store
MetaPush(name, size) ==
    /\ ~panicked
    /\ last_key_value(meta.inodes)[2] + 1 <= MaxLegacyInode
    /\ meta' = MetaData_push(meta, name, size)
    /\ last' = [op |-> "meta_push", arg |-> meta'.inodes[name], name |-> name,
                res |-> "Ok", attr |-> meta'.attrs[meta'.inodes[name]]]
    /\ UNCHANGED <<mapper, list, panicked, returned, created, clock, attrs,
                   stream>>

\* The legacy flat store filled by pushes.
NextLegacy ==
    \E n \in LegacyNames, sz \in LegacySizes : MetaPush(n, sz)

SpecLegacy == Init /\ [][NextLegacy]_vars

\* The engine driven by create, mkdir and unlink while time passes, with
\* setattr requests.
SetattrCreate(parent, name) ==
    /\ next_inode(mapper) <= MaxSetattrInode
    /\ FsCreate(parent, name, 33188, 420)

SetattrMkdir(parent, name) ==
    /\ next_inode(mapper) <= MaxSetattrInode
    /\ FsMkdir(parent, name, 493, 18)

NextSetattr ==
    \/ SetattrCreate(ROOT_INODE, "a")
    \/ SetattrMkdir(ROOT_INODE, "b")
    \/ \E n \in ComponentNames : FsUnlink(ROOT_INODE, n)
    \/ \E i \in SetattrInodes, sz \in SizeArgs, at \in TimeOrNowArgs,
          mt \in TimeOrNowArgs, ct \in CtimeArgs : FsSetattr(i, sz, at, mt, ct)
    \/ Tick

SpecSetattr == Init /\ [][NextSetattr]_vars


\* ----------------------------------------------------------------- claims
NotFound == [res |-> "NotFound", attr |-> NoAttr]

\* C1: after unlink(parent, name) has returned success, lookup(parent, name)
\* returns the NotFound error value, under every iteration order of the
\* parent's child set.
C1_LookupAfterUnlinkNotFound ==
    (last.op = "unlink" /\ last.res = "Ok")
        => lookup(list, last.arg, last.name) = {NotFound}

\* C2: after unlink(parent, name) has returned success for identifier id,
\* id is not a key of the child set of parent.
C2_UnlinkedAbsentFromChildSet ==
    (last.op = "unlink" /\ last.res = "Ok" /\ last.arg \in DOMAIN list)
        => last.attr.ino \notin DOMAIN list[last.arg].entries

\* Directories reachable from the root by following child sets.
RECURSIVE Reach(_, _)
Reach(frontier, seen) ==
    IF frontier = {} THEN seen
    ELSE LET next == (UNION {DOMAIN list[d].entries : d \in frontier}
                        \cap DOMAIN list) \ seen
         IN  Reach(next, seen \cup next)

ReachableFromRoot ==
    IF ROOT_INODE \in DOMAIN list THEN Reach({ROOT_INODE}, {ROOT_INODE}) ELSE {}

\* C3: every identifier in the child set of an entry reachable from the
\* root is a key of the tree, and its record carries that identifier.
C3_TreeConsistency ==
    \A d \in ReachableFromRoot : \A c \in DOMAIN list[d].entries :
        c \in DOMAIN list /\ list[c].attr.ino = c

\* C4: while the process runs, every pair inserted by create/mkdir and not
\* yet passed to unlink is resolved by lookup to the identifier that the
\* create/mkdir returned, under every iteration order.
C4_RoundTrip ==
    ~panicked =>
        \A k \in DOMAIN created : \A r \in lookup(list, k[1], k[2]) :
            r.res = "Ok" /\ r.attr.ino = created[k]

C6_Uniqueness ==
    [][ /\ (Len(returned') > Len(returned)) =>
            /\ returned'[Len(returned')] \notin DOMAIN list
            /\ \A i \in DOMAIN list :
                  /\ i \in DOMAIN list'
                  /\ list'[i].attr = list[i].attr
                  /\ list'[i].name = list[i].name
                  /\ list'[i].parent = list[i].parent
                  /\ list'[i].variant = list[i].variant
        /\ \A i \in DOMAIN list' : list'[i].attr.ino = i ]_vars

\* C6 witness: a create returned while two other entries were live.
C6_Witness ==
    /\ last.op = "create" /\ last.res = "Ok"
    /\ Cardinality(DOMAIN list) = 3

\* C7: identifier 1 is a key of the tree and is bound to the root
\* directory record.
C7_RootPermanence ==
    /\ ROOT_INODE \in DOMAIN list
    /\ list[ROOT_INODE].variant = "Directory"
    /\ list[ROOT_INODE].name = "/"
    /\ list[ROOT_INODE].parent = ROOT_INODE
    /\ list[ROOT_INODE].attr.ino = ROOT_INODE

\* C8: unlink of a pair the path index does not resolve returns NotFound,
\* does not terminate the process, and leaves path index and tree unchanged.
C8_UnlinkUnresolvedNotFound ==
    [][ \A p \in Inodes, n \in Names :
          (FsUnlink(p, n) /\ <<p, n>> \notin DOMAIN mapper.map)
              => (last'.res = "NotFound" /\ ~panicked'
                  /\ mapper' = mapper /\ list' = list) ]_vars

\* C9: getattr of an identifier that is not a key of the tree returns
\* NotFound without terminating the process; getattr of a live identifier
\* returns that entry's attribute record.
C9_GetattrNotFoundOrRecord ==
    [][ \A i \in Inodes :
          FsGetattr(i) =>
              IF i \in DOMAIN list
                THEN last'.res = "Ok" /\ last'.attr = list[i].attr
                ELSE last'.res = "NotFound" /\ ~panicked' ]_vars

\* C10: the n-th successful create/mkdir returns identifier n+1, and after
\* a create with permission bits p returned, lookup of the created pair
\* returns the record with the created identifier, kind regular-file and
\* permission bits p, under every iteration order.
C10_CreateThenLookup ==
    [][ /\ \A n \in 1 .. Len(returned') : returned'[n] = n + 1
        /\ \A p \in Inodes, n \in ComponentNames, f \in Perms :
              (FsCreate(p, n, 33188, f) /\ last'.res = "Ok")
                  => lookup(list', p, n) =
                        {[res |-> "Ok",
                          attr |-> FileAttribute_new(returned'[Len(returned')],
                                                     "RegularFile", f % 65536)]}
      ]_vars


\* Identifiers that create/mkdir have returned so far.
Returned == {returned[i] : i \in 1 .. Len(returned)}

\* C11: readdir(id, cursor) on a live directory returns a child of id when
\* the directory has a child at rank max(cursor, 1), and End when it has
\* none; a directory with no children gets End for every cursor.
C11_ReaddirChildAtRank ==
    [][ last'.op = "readdir" =>
          \A i \in {last'.arg}, o \in Offsets :
            (Readdir(i, o) /\ i \in DOMAIN list /\ list[i].variant = "Directory")
                => LET kids == DOMAIN list[i].entries
                       rank == IF o > 1 THEN o ELSE 1
                   IN  IF rank > Cardinality(kids)
                         THEN last'.res = "Break"
                         ELSE last'.res = "Continue" /\ last'.attr.ino \in kids
      ]_vars

\* C12: readdir(id, cursor) signals End for every cursor when id is a live
\* file or is not a key of the tree, and changes no state.
C12_ReaddirFileOrMissingEnds ==
    [][ last'.op = "readdir" =>
          \A i \in {last'.arg} \ {0}, o \in Offsets :
            (Readdir(i, o) /\ (i \notin DOMAIN list \/ list[i].variant = "File"))
                => (last'.res = "Break" /\ ~panicked'
                    /\ mapper' = mapper /\ list' = list) ]_vars

\* C12 witness: readdir was called on a live file with a cursor that names
\* a live identifier, and signalled End.
C12_Witness ==
    /\ last.op = "readdir" /\ last.res = "Break"
    /\ last.arg \in DOMAIN list
    /\ list[last.arg].variant = "File"
    /\ ROOT_INODE \in DOMAIN list

\* C14: access(id, mask) returns Ok exactly when id is a key of the tree
\* and NotFound otherwise, for every mask, and changes no state; after a
\* successful unlink of id, access(id, mask) returns NotFound.
C14_AccessIsExistence ==
    [][ /\ last'.op = "access" =>
              \A i \in {last'.arg} \ {0}, m \in Masks :
                FsAccess(i, m)
                    => (/\ last'.res = IF i \in DOMAIN list THEN "Ok" ELSE "NotFound"
                        /\ ~panicked'
                        /\ mapper' = mapper /\ list' = list)
        /\ (last'.op = "unlink" /\ last'.res = "Ok")
              => \A m \in Masks : access(list', last'.attr.ino, m) = "NotFound"
      ]_vars

\* C14 witness: access answered NotFound for an identifier that create or
\* mkdir had returned and unlink removed.
C14_Witness ==
    /\ last.op = "access" /\ last.res = "NotFound"
    /\ last.arg \in Returned

\* Requests for operations the core does not implement.
UnimplementedOps ==
    {"read", "write", "rename", "link", "symlink", "setxattr", "getxattr",
     "listxattr", "removexattr", "getlk", "setlk", "statfs", "ioctl"}

\* C15: every request for an operation the core does not implement is
\* answered with an error reply, never with a success reply.
C15_UnimplementedRepliesError ==
    last.op \in UnimplementedOps => last.res \in {"ENOSYS", "EPERM"}


\* What setattr leaves of a field: the argument's value when the argument
\* is present, the prior value when it is not.
FieldAfter(arg, prior) ==
    IF arg.tag = "None" THEN prior
    ELSE IF arg.tag = "Now" THEN clock
    ELSE arg.v

\* C13: setattr on a live identifier sets exactly the fields whose argument
\* is present and leaves every other field of the record, every other
\* entry, the path index and the allocator unchanged; on an identifier that
\* is not live it replies ENOENT and changes nothing.
C13_SetattrPartialUpdate ==
    [][ last'.op = "setattr" =>
          \A i \in {last'.arg} \ {0}, sz \in SizeArgs, at \in TimeOrNowArgs,
             mt \in TimeOrNowArgs, ct \in CtimeArgs :
            FsSetattr(i, sz, at, mt, ct) =>
              /\ ~panicked'
              /\ mapper' = mapper
              /\ DOMAIN list' = DOMAIN list
              /\ \A j \in DOMAIN list \ {i} : list'[j] = list[j]
              /\ IF i \in DOMAIN list
                   THEN /\ last'.res = "Ok"
                        /\ last'.attr = list'[i].attr
                        /\ list'[i].attr.size = FieldAfter(sz, list[i].attr.size)
                        /\ list'[i].attr.atime = FieldAfter(at, list[i].attr.atime)
                        /\ list'[i].attr.mtime = FieldAfter(mt, list[i].attr.mtime)
                        /\ list'[i].attr.ctime = FieldAfter(ct, list[i].attr.ctime)
                        /\ list'[i].attr.crtime = list[i].attr.crtime
                        /\ list'[i].attr.ino = list[i].attr.ino
                        /\ list'[i].attr.kind = list[i].attr.kind
                        /\ list'[i].attr.perm = list[i].attr.perm
                        /\ list'[i].name = list[i].name
                        /\ list'[i].parent = list[i].parent
                        /\ list'[i].variant = list[i].variant
                        /\ list'[i].entries = list[i].entries
                   ELSE last'.res = "NotFound"
      ]_vars

\* C13 witness: after time has passed, setattr with only the size present
\* changed the size of a live entry and kept its four timestamps.
C13_Witness ==
    /\ last.op = "setattr" /\ last.res = "Ok"
    /\ last.arg \in DOMAIN list
    /\ LET a == list[last.arg].attr
       IN  /\ a.size = 5
           /\ a.atime = a.crtime /\ a.mtime = a.crtime /\ a.ctime = a.crtime
           /\ clock > a.crtime


\* C16: lookup(parent, name) returns the attribute record of id exactly
\* when the path index maps (parent, name) to id, and NotFound exactly when
\* the path index has no mapping for the pair; it never terminates the
\* process.
C16_LookupAgreesWithPathIndex ==
    [][ last'.op = "lookup" =>
          \A p \in {last'.arg} \ {0}, n \in {last'.name} :
            FsLookup(p, n) =>
              IF <<p, n>> \in DOMAIN mapper.map
                THEN /\ last'.res = "Ok"
                     /\ last'.attr.ino = mapper.map[<<p, n>>]
                ELSE last'.res = "NotFound"
      ]_vars

\* C17: create or mkdir whose parent is not a live directory fails with
\* NotFound, does not terminate the process, and leaves the path index,
\* the tree and the allocator frontier unchanged.
C17_CreateBadParentNotFound ==
    [][ last'.op \in {"create", "mkdir"} =>
          \A p \in {last'.arg} \ {0}, n \in {last'.name} :
            (/\ \/ \E f \in Perms : FsCreate(p, n, 33188, f)
                \/ \E mo \in Perms : FsMkdir(p, n, mo, 18)
             /\ (p \notin DOMAIN list \/ list[p].variant # "Directory"))
                => (/\ last'.res = "NotFound"
                    /\ ~panicked'
                    /\ mapper' = mapper /\ list' = list)
      ]_vars

\* C20: while the process runs, every path-index mapping (parent, name) ->
\* id points to a key of the tree whose record stores that parent and that
\* name.
C20_PathIndexAgreesWithTree ==
    ~panicked =>
        \A k \in DOMAIN mapper.map :
            /\ mapper.map[k] \in DOMAIN list
            /\ list[mapper.map[k]].parent = k[1]
            /\ list[mapper.map[k]].name = k[2]

\* C20 witness: unlink has removed an entry while another created pair is
\* still registered.
C20_Witness ==
    /\ last.op = "unlink" /\ last.res = "Ok" /\ last.name # "/"
    /\ \E k \in DOMAIN mapper.map : k[2] # "/"


\* Number of path-index pairs and of tree entries.
Pairs(m) == Cardinality(DOMAIN m.map)

Entries(l) == Cardinality(DOMAIN l)

\* Tree entries whose own (parent, name) pair resolves to them.
Resolvable(m, l) ==
    {i \in DOMAIN l : /\ <<l[i].parent, l[i].name>> \in DOMAIN m.map
                      /\ m.map[<<l[i].parent, l[i].name>>] = i}

TagOf(entry) == IF entry.variant = "Directory" THEN "Directory" ELSE "File"

\* C19: after push(item) with a live directory P as parent, P's child set
\* maps item's identifier to the tag of item's variant, and readdir(ROOT, 0)
\* continues with the root's own record, whose child set holds every live
\* entry whose parent is the root, with its tag.
C19_PushTagsAndReaddirRoot ==
    [][ (last'.op = "push" /\ last'.res = "Ok") =>
          /\ last'.arg \in DOMAIN list'
          /\ last'.attr.ino \in DOMAIN list'[last'.arg].entries
          /\ list'[last'.arg].entries[last'.attr.ino]
                = TagOf(list'[last'.attr.ino])
          /\ LET r == readdir(list', ROOT_INODE, 0, 0)
             IN  /\ r.res = "Continue"
                 /\ r.entry.variant = "Directory"
                 /\ r.entry.attr.ino = ROOT_INODE
                 /\ \A c \in DOMAIN list' \ {ROOT_INODE} :
                       list'[c].parent = ROOT_INODE
                          => /\ c \in DOMAIN r.entry.entries
                             /\ r.entry.entries[c] = TagOf(list'[c])
      ]_vars


\* Live directories whose child set holds identifier i.
HoldersOf(i) ==
    {d \in DOMAIN list : list[d].variant = "Directory"
                           /\ i \in DOMAIN list[d].entries}

\* C21: every identifier is live in all structures or absent from all of
\* them: an entry of the tree is resolved by the path index through its own
\* (parent, name) pair and (but for the root) is in a child set, and an
\* identifier without tree entry is in no pair and in no child set.
C21_TwoStateLifecycle ==
    ~panicked =>
      \A i \in 1 .. (MaxInode + 1) :
        IF i \in DOMAIN list
          THEN /\ <<list[i].parent, list[i].name>> \in DOMAIN mapper.map
               /\ mapper.map[<<list[i].parent, list[i].name>>] = i
               /\ (i # ROOT_INODE => HoldersOf(i) # {})
          ELSE /\ \A k \in DOMAIN mapper.map : mapper.map[k] # i
               /\ HoldersOf(i) = {}

\* C22: every live entry other than the root has as parent a live directory
\* whose child set contains the entry.
C22_NoOrphans ==
    ~panicked =>
      \A i \in DOMAIN list \ {ROOT_INODE} :
        /\ list[i].parent \in DOMAIN list
        /\ list[list[i].parent].variant = "Directory"
        /\ i \in DOMAIN list[list[i].parent].entries

\* C23: a create/mkdir for a (parent, name) pair that is already live
\* succeeds with a fresh identifier, keeps the first entry's record in the
\* tree and in the parent's child set, and makes the path index and lookup
\* resolve the pair to the new identifier.
C23_DuplicateCreateShadows ==
    [][ last'.op \in {"create", "mkdir"} =>
          \A p \in {last'.arg} \ {0}, n \in {last'.name} :
            (/\ \/ \E f \in Perms : FsCreate(p, n, 33188, f)
                \/ \E mo \in Perms : FsMkdir(p, n, mo, 18)
             /\ <<p, n>> \in DOMAIN mapper.map
             /\ mapper.map[<<p, n>>] \in DOMAIN list)
               => LET old == mapper.map[<<p, n>>]
                      new == last'.attr.ino
                  IN  /\ last'.res = "Ok"
                      /\ new \notin DOMAIN list /\ new # old
                      /\ old \in DOMAIN list' /\ list'[old] = list[old]
                      /\ p \in DOMAIN list'
                      /\ old \in DOMAIN list'[p].entries
                      /\ mapper'.map[<<p, n>>] = new
                      /\ lookup(list', p, n)
                           = {[res |-> "Ok", attr |-> last'.attr]} ]_vars

\* C24: no live directory's child set contains the directory's own
\* identifier or the identifier of its parent.
C24_NoSelfLoops ==
    ~panicked =>
      \A d \in DOMAIN list :
        list[d].variant = "Directory"
          => /\ d \notin DOMAIN list[d].entries
             /\ list[d].parent \notin DOMAIN list[d].entries

\* C24 witness: a directory below the root has a child.
C24_Witness ==
    /\ ~panicked
    /\ \E d \in DOMAIN list \ {ROOT_INODE} :
          /\ list[d].variant = "Directory"
          /\ \E c \in DOMAIN list[d].entries : c \in DOMAIN list

\* C25: the record create/mkdir returns and stores carries the permission
\* bits of the request's mode.
C25_RequestedPermissions ==
    [][ (last'.op \in {"create", "mkdir"} /\ last'.res = "Ok") =>
          \A p \in {last'.arg}, n \in {last'.name} :
            /\ \A f \in Perms :
                 FsCreate(p, n, 33188, f)
                   => /\ last'.attr.perm = 33188 % 4096
                      /\ list'[last'.attr.ino].attr.perm = 33188 % 4096
            /\ \A mo \in Perms :
                 FsMkdir(p, n, mo, 18)
                   => /\ last'.attr.perm = mo % 4096
                      /\ list'[last'.attr.ino].attr.perm = mo % 4096 ]_vars

\* C30: lookup(parent, name) has one result, whatever the order in which
\* the parent's child set is iterated.
C30_LookupDeterministic ==
    ~panicked =>
      \A p \in DOMAIN list, n \in Names :
        Cardinality(lookup(list, p, n)) = 1


\* C26: removing a pair that is not registered leaves the path index (the
\* pair map and the name index) unchanged, and removing a pair twice leaves
\* the state that removing it once leaves.
C26_RemoveIdempotentNoOp ==
    [][ last'.op = "mapper_remove" =>
          \A p \in {last'.arg}, n \in {last'.name} :
            MapperRemove(p, n) =>
              /\ (<<p, n>> \notin DOMAIN mapper.map => mapper' = mapper)
              /\ remove(mapper', p, n) = mapper' ]_vars

\* C27: Attr::push for an identifier that already has a record fails with
\* AlreadyExists and leaves the stored record unchanged.
C27_AttrPushAlreadyExists ==
    [][ last'.op = "attr_push" =>
          \A i \in {last'.arg} :
            ((\E pe \in Perms, k \in {"RegularFile", "Directory"} :
                 AttrPush(i, pe, k))
             /\ i \in DOMAIN attrs)
               => /\ last'.res = "AlreadyExists"
                  /\ attrs' = attrs ]_vars

\* C28: on a live directory the adapter's readdir replies with `.` first
\* for cursor 0 and with `..` first for cursor 1, and, when the directory
\* has no children, with no entry for a cursor above 1.
C28_ReaddirDots ==
    [][ (last'.op = "fs_readdir" /\ stream'.state = "Open"
         /\ stream'.ino \in DOMAIN list
         /\ list[stream'.ino].variant = "Directory") =>
          /\ stream'.offset = 0
               => /\ stream'.res = "Ok" /\ stream'.entries # << >>
                  /\ stream'.entries[1].name = "."
          /\ stream'.offset = 1
               => /\ stream'.res = "Ok" /\ stream'.entries # << >>
                  /\ stream'.entries[1].name = ".."
          /\ (stream'.offset > 1 /\ DOMAIN list[stream'.ino].entries = {})
               => /\ stream'.res = "Ok" /\ stream'.entries = << >> ]_vars

\* C29: a listing of a live directory that starts at cursor 0 and resumes
\* from the offset of the last accepted entry gets a reply to every request
\* and, when a reply comes back empty, has returned every child of the
\* directory exactly once.
C29_PaginatedListingComplete ==
    (/\ stream.state = "Open" /\ stream.start = 0
     /\ stream.ino \in DOMAIN list
     /\ list[stream.ino].variant = "Directory") =>
        /\ stream.res = "Ok" /\ ~panicked
        /\ stream.entries = << >> =>
             \A c \in DOMAIN list[stream.ino].entries :
               Cardinality({i \in 1 .. Len(stream.listed) :
                              stream.listed[i].ino = c}) = 1


\* C31: get_path(name) resolves exactly when some live entry has that name,
\* and then to a live entry with that name.
C31_NameIndexConsistent ==
    ~panicked =>
      \A n \in Names :
        /\ (get_path(mapper, n) # None)
              <=> (\E i \in DOMAIN list : list[i].name = n)
        /\ get_path(mapper, n) # None
              => /\ get_path(mapper, n).v \in DOMAIN list
                 /\ list[get_path(mapper, n).v].name = n


\* C32: next_inode() is greater than every identifier that is a key of the
\* tree, and a create/mkdir that succeeds stores its entry under an
\* identifier that was not a key of the tree.
C32_FrontierAheadOfLive ==
    [][ /\ ~panicked' => \A i \in DOMAIN list' : next_inode(mapper') > i
        /\ (last'.op \in {"create", "mkdir"} /\ last'.res = "Ok")
              => last'.attr.ino \notin DOMAIN list ]_vars


\* C33: every MetaData::push assigns an inode that is not yet a key of
\* attrs: no attribute record is overwritten, and a push with a name that
\* was not used adds exactly one record.
C33_LegacyPushFreshInode ==
    [][ last'.op = "meta_push" =>
          /\ last'.arg \notin DOMAIN meta.attrs
          /\ \A i \in DOMAIN meta.attrs :
                i \in DOMAIN meta'.attrs /\ meta'.attrs[i] = meta.attrs[i]
          /\ last'.name \notin DOMAIN meta.inodes
                => Cardinality(DOMAIN meta'.attrs)
                     = Cardinality(DOMAIN meta.attrs) + 1 ]_vars

=============================================================================
